---- MODULE Spec2Model ----
(***************************************************************************)
(* Model of the RAG backend of cursor-for-docs: the HTTP endpoints of      *)
(* backend/app/router.py and the pipeline functions of                     *)
(* backend/app/services.py, acting on one shared Azure AI Search index.    *)
(*                                                                         *)
(* Strings that reach a filter expression are sequences of symbols.  A     *)
(* symbol is a letter, the quote character or a piece of filter syntax     *)
(* (" eq ", " and ", " or ", "user_id", "source"), so that building a       *)
(* filter by interpolation and evaluating it in the search service are     *)
(* two different steps.                                                    *)
(***************************************************************************)
EXTENDS Integers, Sequences, FiniteSets, TLC

VARIABLES index, nextId, pre, last, stream, deletion

vars == <<index, nextId, pre, last, stream, deletion>>

(***************************************************************************)
(* Bounds                                                                  *)
(***************************************************************************)
MaxChunks == 2
MaxFiles == 2
MaxQueryLen == 1
MaxFragments == 3

(***************************************************************************)
(* Symbols and strings                                                     *)
(***************************************************************************)
Quote == "'"

FieldNames == {"user_id", "source"}

\* uids issued by the identity provider; the empty uid is a verified token
\* without a subject
Users == {<<"u">>, <<"v">>}

Uids == Users \cup {<<>>}

\* ' or user_id eq 'v
InjectUserName == <<Quote, " or ", "user_id", " eq ", Quote, "v">>

FileNames == {<<"g">>, InjectUserName}

DocumentNames == FileNames \cup {<<"g", Quote>>, <<"g", " or ", "g">>}

(***************************************************************************)
(* The OData filter language of the search service, as far as the filters  *)
(* of services.py use it: comparisons field eq 'literal' joined by and/or, *)
(* and binding tighter than or, '' inside a literal standing for one       *)
(* quote.                                                                  *)
(***************************************************************************)
RECURSIVE ReadLiteral(_, _, _)
ReadLiteral(s, i, acc) ==
    IF i > Len(s) THEN [ok |-> FALSE, val |-> acc, next |-> i]
    ELSE IF s[i] = Quote
         THEN IF i + 1 <= Len(s) /\ s[i + 1] = Quote
              THEN ReadLiteral(s, i + 2, Append(acc, Quote))
              ELSE [ok |-> TRUE, val |-> acc, next |-> i + 1]
         ELSE ReadLiteral(s, i + 1, Append(acc, s[i]))

RECURSIVE Lex(_, _)
Lex(s, i) ==
    IF i > Len(s) THEN <<>>
    ELSE IF s[i] = Quote
         THEN LET r == ReadLiteral(s, i + 1, <<>>)
              IN  IF r.ok
                  THEN <<[kind |-> "str", val |-> r.val]>> \o Lex(s, r.next)
                  ELSE <<[kind |-> "bad", val |-> <<>>]>>
    ELSE IF s[i] \in FieldNames
         THEN <<[kind |-> "field", val |-> <<s[i]>>]>> \o Lex(s, i + 1)
    ELSE IF s[i] = " eq "
         THEN <<[kind |-> "eq", val |-> <<>>]>> \o Lex(s, i + 1)
    ELSE IF s[i] = " and "
         THEN <<[kind |-> "and", val |-> <<>>]>> \o Lex(s, i + 1)
    ELSE IF s[i] = " or "
         THEN <<[kind |-> "or", val |-> <<>>]>> \o Lex(s, i + 1)
    ELSE <<[kind |-> "bad", val |-> <<>>]>>

\* the token sequence parses: cmp (and|or cmp)*; no token at all is a
\* search without filter
TokensValid(t) ==
    \/ t = <<>>
    \/ /\ Len(t) % 4 = 3
       /\ \A i \in 1..Len(t) :
             t[i].kind = CASE i % 4 = 1 -> "field"
                           [] i % 4 = 2 -> "eq"
                           [] i % 4 = 3 -> "str"
                           [] OTHER -> IF t[i].kind = "or" THEN "or" ELSE "and"

\* value of a valid token sequence on one indexed chunk
TokensMatch(t, chunk) ==
    LET n == (Len(t) + 1) \div 4
        Cmp(j) == chunk[t[4 * j - 3].val[1]] = t[4 * j - 1].val
        Con(j) == t[4 * j].kind
    IN  \/ t = <<>>
        \/ \E a \in 1..n : \E b \in a..n :
              /\ a = 1 \/ Con(a - 1) = "or"
              /\ b = n \/ Con(b) = "or"
              /\ \A j \in a..(b - 1) : Con(j) = "and"
              /\ \A j \in a..b : Cmp(j)

\* the service's answer to a search with this filter: whether the filter
\* is accepted, and the chunks it selects
Search(filter, idx) ==
    LET t == Lex(filter, 1)
    IN  IF TokensValid(t)
        THEN [ok |-> TRUE, hits |-> {d \in idx : TokensMatch(t, d)}]
        ELSE [ok |-> FALSE, hits |-> {}]

(***************************************************************************)
(* Uploaded files.  pages is the text of the PDF, page by page; a page is  *)
(* the sequence of the segments the text splitter cuts it into (an empty   *)
(* page gives no chunk).  fault says whether reading the upload or parsing *)
(* the PDF raises.                                                         *)
(***************************************************************************)
PdfType == "application/pdf"

Upload(n, ct, pg, fl) ==
    [filename |-> n, content_type |-> ct, pages |-> pg, fault |-> fl]

GoodPdf == Upload(<<"g">>, PdfType, << <<>>, <<"u">> >>, "none")

QuotedPdf == Upload(InjectUserName, PdfType, << <<"t">> >>, "none")

EmptyPdf == Upload(<<"e">>, PdfType, << <<>> >>, "none")

NotPdf == Upload(<<"n">>, "application/PDF", << <<"v">> >>, "none")

BrokenPdf == Upload(<<"b">>, PdfType, << <<"t">> >>, "parse")

UnreadablePdf == Upload(<<"r">>, PdfType, << <<"t">> >>, "read")

Uploads == {GoodPdf, QuotedPdf, EmptyPdf, NotPdf, BrokenPdf, UnreadablePdf}

BatchUploads == {GoodPdf, EmptyPdf, NotPdf, BrokenPdf}

RECURSIVE SeqsUpTo(_, _)
SeqsUpTo(S, n) ==
    IF n = 0 THEN {<<>>}
    ELSE LET R == SeqsUpTo(S, n - 1)
         IN  R \cup {Append(r, x) : r \in {q \in R : Len(q) = n - 1}, x \in S}

\* requests with one file, of every kind
SingleFiles == {<<file>> : file \in Uploads}

\* requests with several files
FileLists == SeqsUpTo(BatchUploads, MaxFiles)

\* requests in which a file may fail to be read or parsed
FailingLists == SeqsUpTo({GoodPdf, BrokenPdf, UnreadablePdf}, MaxFiles)

\* what the index service does during one request
IndexFaults == {"none", "connect", "request"}

Call(fn, arg) == [fn |-> fn, arg |-> arg]

CalledFns(calls) == {calls[i].fn : i \in 1..Len(calls)}

\* requests that go to the vector index service
IndexRequests == {"index.get_index", "index.upload", "index.search", "index.delete"}

(***************************************************************************)
(* services.py                                                             *)
(***************************************************************************)
\* get_vector_store_client: the embeddings client is built, then the
\* AzureSearch constructor creates or verifies the index at the service
get_vector_store_client(fault) ==
    [raised |-> fault = "connect",
     calls |-> <<Call("get_vector_store_client", 0),
                 Call("get_embeddings_client", 0),
                 Call("index.get_index", 0)>>]

\* temporary path NamedTemporaryFile gives the copy of the i-th file
TmpPath(i) == <<"tmp">>

\* PyMuPDFLoader.load: one document per page, source is the path loaded
LoaderLoad(path, file) ==
    [p \in 1..Len(file.pages) |->
        [segments |-> file.pages[p],
         metadata |-> [source |-> path, page |-> p - 1]]]

\* the loop of lines 65-66 left out: the loader's source stays
SetSourceKept(docs, original_filename) == docs

\* doc.metadata["source"] = original_filename, for every doc
SetSource(docs, original_filename) ==
    [p \in 1..Len(docs) |->
        [docs[p] EXCEPT !.metadata = [@ EXCEPT !.source = original_filename]]]

\* RecursiveCharacterTextSplitter.split_documents: the chunks of every
\* document in order, each with a copy of the document's metadata
RECURSIVE SplitDocuments(_, _, _)
SplitDocuments(docs, p, i) ==
    IF p > Len(docs) THEN <<>>
    ELSE [k \in 1..Len(docs[p].segments) |->
             [page_content |-> docs[p].segments[k],
              metadata |-> docs[p].metadata,
              file |-> i]]
         \o SplitDocuments(docs, p + 1, i)

\* a content-type test that ignores case
IsAcceptedAnyCase(file) == file.content_type \in {PdfType, "application/PDF"}

\* the content-type test of the file loop
IsAccepted(file) == file.content_type = PdfType

\* a file loop that goes on to the next file when one cannot be read or
\* parsed
RECURSIVE IngestLoopSkipBroken(_, _, _)
IngestLoopSkipBroken(files, i, acc) ==
    IF i > Len(files) THEN acc
    ELSE IF ~IsAccepted(files[i]) THEN IngestLoopSkipBroken(files, i + 1, acc)
    ELSE LET file == files[i]
             loading == [acc EXCEPT
                           !.calls = @ \o <<Call("file.read", i),
                                            Call("loader.load", i)>>]
         IN  IF file.fault # "none"
             THEN IngestLoopSkipBroken(files, i + 1, loading)
             ELSE LET docs == SetSource(LoaderLoad(TmpPath(i), file),
                                        file.filename)
                      chunks == SplitDocuments(docs, 1, i)
                  IN  IngestLoopSkipBroken(files, i + 1,
                          [loading EXCEPT !.all_chunks = @ \o chunks])

\* the file loop of ingest_files, from the i-th file on
RECURSIVE IngestLoop(_, _, _)
IngestLoop(files, i, acc) ==
    IF i > Len(files) THEN acc
    ELSE IF ~IsAccepted(files[i]) THEN IngestLoop(files, i + 1, acc)
    ELSE LET file == files[i]
             created == [acc EXCEPT !.tmp = @ \cup {i},
                                    !.calls = Append(@, Call("file.read", i))]
         IN  IF file.fault = "read"
             THEN [created EXCEPT !.raised = TRUE, !.failedAt = i]
             ELSE LET loading == [created EXCEPT
                                    !.calls = Append(@, Call("loader.load", i))]
                  IN  IF file.fault = "parse"
                      THEN [loading EXCEPT !.raised = TRUE, !.failedAt = i]
                      ELSE LET docs == SetSource(LoaderLoad(TmpPath(i), file),
                                                 file.filename)
                               chunks == SplitDocuments(docs, 1, i)
                           IN  IngestLoop(files, i + 1,
                                   [loading EXCEPT
                                      !.tmp = @ \ {i},
                                      !.all_chunks = @ \o chunks])

MetaGet(metadata, key, default) ==
    IF key \in DOMAIN metadata THEN metadata[key] ELSE default

\* the metadata record built for one chunk
ChunkMeta(chunk, user_id) ==
    [source |-> MetaGet(chunk.metadata, "source", <<"Unknown">>),
     title |-> MetaGet(chunk.metadata, "source", <<"Unknown">>),
     user_id |-> user_id,
     metadata |-> [source |-> MetaGet(chunk.metadata, "source", <<"Unknown">>),
                   page |-> MetaGet(chunk.metadata, "page", 0)]]

\* keys that number the texts of one call
AddTextsKeyedByPosition(texts, metadatas, firstId) ==
    {[id |-> k,
      content |-> texts[k],
      source |-> metadatas[k].source,
      title |-> metadatas[k].title,
      user_id |-> metadatas[k].user_id,
      metadata |-> metadatas[k].metadata] : k \in 1..Len(texts)}

\* AzureSearch.add_texts: one document per text under a fresh key, with
\* the metadata entries that are fields of the index
AddTexts(texts, metadatas, firstId) ==
    {[id |-> firstId + k - 1,
      content |-> texts[k],
      source |-> metadatas[k].source,
      title |-> metadatas[k].title,
      user_id |-> metadatas[k].user_id,
      metadata |-> metadatas[k].metadata] : k \in 1..Len(texts)}

\* the requests add_texts makes to the Embedding Provider: the embedding
\* function handed to AzureSearch is embed_query, which embeds one text, and
\* the embeddings client sends one text per request (chunk_size=1)
EmbedCalls(texts) == [k \in 1..Len(texts) |-> Call("embeddings.embed_query", 0)]

\* a count of the accepted files only
IngestCountAccepted(files, all_chunks) ==
    Cardinality({i \in 1..Len(files) : files[i].content_type = PdfType})

\* the return value of ingest_files after a successful upsert
IngestCount(files, all_chunks) == Len(files)

\* ingest_files(files, user_id) on index idx
ingest_files(files, user_id, idx, firstId, fault) ==
    LET client == get_vector_store_client(fault)
        start == [raised |-> FALSE, failedAt |-> 0, tmp |-> {},
                  all_chunks |-> <<>>,
                  calls |-> <<Call("ingest_files", 0)>> \o client.calls]
        loop == IngestLoop(files, 1, start)
        texts_to_add == [k \in 1..Len(loop.all_chunks) |->
                            loop.all_chunks[k].page_content]
        metadatas_to_add == [k \in 1..Len(loop.all_chunks) |->
                                ChunkMeta(loop.all_chunks[k], user_id)]
        base == [outcome |-> "returned", count |-> 0, calls |-> start.calls,
                 tmp |-> {}, failedAt |-> 0, written |-> <<>>,
                 all_chunks |-> <<>>, index |-> idx, nextId |-> firstId]
    IN  IF client.raised
        THEN [base EXCEPT !.outcome = "raised"]
        ELSE IF loop.raised
        THEN [base EXCEPT !.outcome = "raised", !.calls = loop.calls,
                          !.tmp = loop.tmp, !.failedAt = loop.failedAt,
                          !.all_chunks = loop.all_chunks]
        ELSE IF loop.all_chunks = <<>>
        THEN [base EXCEPT !.calls = loop.calls, !.tmp = loop.tmp]
        ELSE IF fault = "request"
        THEN [base EXCEPT !.outcome = "raised",
                          !.calls = Append(loop.calls \o EmbedCalls(texts_to_add),
                                           Call("index.upload", 0)),
                          !.tmp = loop.tmp, !.all_chunks = loop.all_chunks]
        ELSE [base EXCEPT
                !.count = IngestCount(files, loop.all_chunks),
                !.calls = Append(loop.calls \o EmbedCalls(texts_to_add),
                                 Call("index.upload", 0)),
                !.tmp = loop.tmp,
                !.all_chunks = loop.all_chunks,
                !.written = [k \in 1..Len(texts_to_add) |->
                                [id |-> firstId + k - 1,
                                 file |-> loop.all_chunks[k].file]],
                !.index = idx \cup AddTexts(texts_to_add, metadatas_to_add, firstId),
                !.nextId = firstId + Len(texts_to_add)]

\* line 107: the filter of the delete search, built by interpolation
FilterExpression(user_id, document_name) ==
    <<"user_id", " eq ", Quote>> \o user_id
      \o <<Quote, " and ", "source", " eq ", Quote>> \o document_name \o <<Quote>>

\* any() in the place of all()
AnySucceeded(result) == \E k \in DOMAIN result : result[k]

\* line 121: all(item.succeeded for item in result)
AllSucceeded(result) == \A k \in DOMAIN result : result[k]

\* delete_document_by_name(document_name, user_id) on index idx; failing
\* is the set of keys whose deletion the service reports as failed
delete_document_by_name(document_name, user_id, idx, fault, failing) ==
    LET filter_expression == FilterExpression(user_id, document_name)
        results == Search(filter_expression, idx)
        searched == <<Call("delete_document_by_name", 0), Call("index.search", 0)>>
        base == [outcome |-> "returned", success |-> FALSE, calls |-> searched,
                 caught |-> FALSE, matched |-> {}, failed |-> {}, logged |-> {},
                 index |-> idx]
    IN  IF fault = "connect" \/ ~results.ok
        THEN [base EXCEPT !.caught = TRUE]
        ELSE LET documents_to_delete == {doc.id : doc \in results.hits}
                 deleting == Append(searched, Call("index.delete", 0))
                 result == [k \in documents_to_delete |-> k \notin failing]
                 succeeded == AllSucceeded(result)
             IN  IF documents_to_delete = {}
                 THEN base
                 ELSE IF fault = "request"
                 THEN [base EXCEPT !.calls = deleting, !.caught = TRUE,
                                   !.matched = documents_to_delete]
                 ELSE [base EXCEPT
                         !.success = succeeded,
                         !.calls = deleting,
                         !.matched = documents_to_delete,
                         !.failed = {k \in documents_to_delete : ~result[k]},
                         !.logged = IF succeeded THEN {}
                                    ELSE {k \in documents_to_delete : ~result[k]},
                         !.index = {c \in idx : c.id \notin documents_to_delete
                                                  \/ ~result[c.id]}]

\* the sets of keys the service can report as failed in one bulk delete
FailureSets(document_name, user_id, idx, fault) ==
    IF fault = "none"
    THEN SUBSET {doc.id : doc \in Search(FilterExpression(user_id, document_name), idx).hits}
    ELSE {{}}

\* a retriever built without search_kwargs
RetrieverFilterUnscoped(user_id) == <<>>

\* lines 147-150: the filter handed to the retriever
RetrieverFilter(user_id) == <<"user_id", " eq ", Quote>> \o user_id \o <<Quote>>

\* number of documents a retriever returns when no k is given
TopK == 4

Min(a, b) == IF a < b THEN a ELSE b

\* the rankings a hybrid search can return: the top k of the chunks the
\* filter selects, in any order of relevance
Rankings(filter, idx) ==
    LET hits == Search(filter, idx).hits
        n == Min(TopK, Cardinality(hits))
    IN  {r \in [1..n -> hits] : \A i, j \in 1..n : i # j => r[i] # r[j]}

\* what can go wrong before the completion call of POST /sources: the
\* index service, or the rendering of the retrieved documents
SourceFaults == IndexFaults \cup {"render"}

\* what the retriever of one request can return
Retrievals(user_id, idx, fault) ==
    IF fault = "none" THEN Rankings(RetrieverFilter(user_id), idx) ELSE {<<>>}

\* format_docs
RECURSIVE format_docs(_)
format_docs(docs) ==
    IF docs = <<>> THEN <<>>
    ELSE <<"Source: ">> \o docs[1].source \o <<"\nContent: ", docs[1].content>>
         \o (IF Len(docs) = 1 THEN <<>> ELSE <<"\n\n">> \o format_docs(Tail(docs)))

\* stream_rag_answer(query, user_id) up to the rendered context; docs is
\* the ranking the retriever returned
stream_rag_answer(query, user_id, idx, fault, docs) ==
    LET client == get_vector_store_client(fault)
        started == <<Call("stream_rag_answer", 0)>> \o client.calls
        base == [outcome |-> "returned", calls |-> started,
                 docs |-> <<>>, context |-> <<>>]
    IN  IF client.raised
        THEN [base EXCEPT !.outcome = "raised"]
        ELSE IF fault = "request" \/ ~Search(RetrieverFilter(user_id), idx).ok
        THEN [base EXCEPT !.outcome = "raised",
                 !.calls = started \o <<Call("get_llm_client", 0),
                                         Call("index.search", 0)>>]
        ELSE IF fault = "render"
        THEN [base EXCEPT !.outcome = "raised",
                 !.calls = started \o <<Call("get_llm_client", 0),
                                         Call("index.search", 0),
                                         Call("format_docs", 0)>>]
        ELSE [base EXCEPT
                 !.calls = started \o <<Call("get_llm_client", 0),
                                         Call("index.search", 0),
                                         Call("llm.astream", 0)>>,
                 !.docs = docs,
                 !.context = format_docs(docs)]

(***************************************************************************)
(* Streamed answers.  A response body is streamed by a generator: the      *)
(* status line is sent when the endpoint returns the StreamingResponse,    *)
(* the generator runs afterwards, one step for every chunk the Completion  *)
(* Provider produces.  produced is what the provider has produced so far,  *)
(* sent what the caller has received.                                      *)
(***************************************************************************)
NoStream ==
    [op |-> "none", state |-> "none", status |-> 0, failed |-> FALSE,
     produced |-> <<>>, sent |-> <<>>]

\* the stream of a response that has just been started
OpenStream(op) == [NoStream EXCEPT !.op = op, !.state = "open", !.status = 200]

\* a message chunk of the Completion Provider: its content, and whether
\* the content is a string (it is a list of content blocks otherwise)
Chunk(content, is_str) == [content |-> content, is_str |-> is_str]

StrChunks == {Chunk(<<"a">>, TRUE), Chunk(<<"b">>, TRUE), Chunk(<<>>, TRUE)}

ProviderChunks == StrChunks \cup {Chunk(<<"a">>, FALSE)}

\* StrOutputParser, the last stage of rag_chain, on one chunk
StrOutputParser(chunk) == chunk.content

\* a generator that yields a chunk ahead of those already delivered
RagYieldAhead(sent, chunk) == <<StrOutputParser(chunk)>> \o sent

\* lines 198-199: every chunk of the chain is yielded
RagYield(sent, chunk) == Append(sent, StrOutputParser(chunk))

\* lines 148-149 of router.py: the content is yielded when it is a
\* non-empty string
GenerateYield(sent, chunk) ==
    IF chunk.content # <<>> /\ chunk.is_str THEN Append(sent, chunk.content) ELSE sent

\* the text of the exception a provider raises
ExceptionText == "provider error"

\* an except clause that only logs
OnStreamErrorSilent(sent, e) == sent

\* lines 150-152 of router.py: yield f"Error: {str(e)}"
OnStreamError(sent, e) == Append(sent, <<"Error: ", e>>)

\* one iteration of the loop of stream_rag_answer
RagStreamStep ==
    /\ stream.op = "sources" /\ stream.state = "open"
    /\ Len(stream.produced) < MaxFragments
    /\ \E chunk \in StrChunks :
          stream' = [stream EXCEPT !.produced = Append(@, chunk),
                                   !.sent = RagYield(@, chunk)]
    /\ UNCHANGED <<index, nextId, pre, last, deletion>>

\* the chain is exhausted: the generator returns and the body ends
RagStreamEnd ==
    /\ stream.op = "sources" /\ stream.state = "open"
    /\ stream' = [stream EXCEPT !.state = "closed"]
    /\ UNCHANGED <<index, nextId, pre, last, deletion>>

\* the completion call raises: nothing in stream_rag_answer catches it,
\* the exception leaves the generator and the response is cut off
RagStreamFail ==
    /\ stream.op = "sources" /\ stream.state = "open"
    /\ stream' = [stream EXCEPT !.state = "aborted", !.failed = TRUE]
    /\ UNCHANGED <<index, nextId, pre, last, deletion>>

\* one iteration of the loop of generate_stream
GenerateStreamStep ==
    /\ stream.op = "general" /\ stream.state = "open"
    /\ Len(stream.produced) < MaxFragments
    /\ \E chunk \in ProviderChunks :
          stream' = [stream EXCEPT !.produced = Append(@, chunk),
                                   !.sent = GenerateYield(@, chunk)]
    /\ UNCHANGED <<index, nextId, pre, last, deletion>>

GenerateStreamEnd ==
    /\ stream.op = "general" /\ stream.state = "open"
    /\ stream' = [stream EXCEPT !.state = "closed"]
    /\ UNCHANGED <<index, nextId, pre, last, deletion>>

\* model.astream raises (also when get_llm_client returned None): the
\* except clause yields one fragment and the generator returns
GenerateStreamFail ==
    /\ stream.op = "general" /\ stream.state = "open"
    /\ stream' = [stream EXCEPT !.state = "closed", !.failed = TRUE,
                                 !.sent = OnStreamError(@, ExceptionText)]
    /\ UNCHANGED <<index, nextId, pre, last, deletion>>

(***************************************************************************)
(* auth.py and router.py                                                   *)
(***************************************************************************)
\* bearer credentials: the verifiable tokens of every uid, and one that
\* verify_id_token rejects (forged or expired) although it names a uid
Tokens == {[valid |-> TRUE, uid |-> u] : u \in Uids}
              \cup {[valid |-> FALSE, uid |-> <<"u">>]}

\* the request of POST /general carries no credentials
NoToken == [valid |-> FALSE, uid |-> <<>>]

\* a decoder that reads the claims of the token without verifying it
GetCurrentUserUnverified(token) == [ok |-> TRUE, uid |-> token.uid]

\* get_current_user: the decoded token, or 401
get_current_user(token) ==
    IF token.valid THEN [ok |-> TRUE, uid |-> token.uid]
    ELSE [ok |-> FALSE, uid |-> <<>>]

\* the dependency of the three document endpoints: the verified identity
\* record of the bearer token, or 401
get_current_pilot_user(token) == get_current_user(token)

Queries == SeqsUpTo({" ", "q"}, MaxQueryLen)

\* str.strip
RECURSIVE LStrip(_)
LStrip(s) == IF s # <<>> /\ s[1] = " " THEN LStrip(Tail(s)) ELSE s

RECURSIVE RStrip(_)
RStrip(s) ==
    IF s # <<>> /\ s[Len(s)] = " " THEN RStrip(SubSeq(s, 1, Len(s) - 1)) ELSE s

Strip(s) == RStrip(LStrip(s))

\* the query test without strip()
QueryMissingNoStrip(query) == query = <<>>

\* the query test of POST /sources: not query or not query.strip()
QueryMissing(query) == query = <<>> \/ Strip(query) = <<>>

\* the shape of the record kept about the last operation
Blank ==
    [op |-> "init", token |-> NoToken, user |-> <<>>, status |-> 0, detail |-> "",
     headers |-> "",
     fn |-> "not_called", count |-> 0, success |-> FALSE, calls |-> <<>>,
     files |-> <<>>, name |-> <<>>, query |-> <<>>,
     written |-> <<>>, tmp |-> {}, failedAt |-> 0,
     matched |-> {}, failed |-> {}, logged |-> {}, caught |-> FALSE,
     docs |-> <<>>, context |-> <<>>]

Unauthorized(op) ==
    [Blank EXCEPT !.op = op, !.status = 401,
                  !.detail = "Invalid authentication credentials",
                  !.headers = "WWW-Authenticate: Bearer"]

\* the record of a request that presented this token
WithToken(record, token) == [record EXCEPT !.token = token]

BadRequest(op, uid, files, query, detail) ==
    [Blank EXCEPT !.op = op, !.user = uid, !.files = files, !.query = query,
                  !.status = 400, !.detail = detail]

\* the record of a call of ingest_files with result r
IngestRecord(op, files, uid, r) ==
    [Blank EXCEPT !.op = op, !.user = uid, !.files = files,
                  !.fn = r.outcome, !.count = r.count, !.calls = r.calls,
                  !.written = r.written, !.tmp = r.tmp, !.failedAt = r.failedAt]

\* POST /documents
upload_documents_endpoint(token, files) ==
    LET current_user == get_current_pilot_user(token)
        user_id == current_user.uid
    IN  /\ pre' = index
        /\ UNCHANGED <<stream, deletion>>
        /\ IF ~current_user.ok
           THEN /\ last' = WithToken(Unauthorized("upload"), token)
                /\ UNCHANGED <<index, nextId>>
           ELSE IF files = <<>>
           THEN /\ last' = WithToken(BadRequest("upload", user_id, files, <<>>,
                                   "No files were uploaded."), token)
                /\ UNCHANGED <<index, nextId>>
           ELSE IF user_id = <<>>
           THEN /\ last' = WithToken(BadRequest("upload", user_id, files, <<>>,
                                   "User ID is required."), token)
                /\ UNCHANGED <<index, nextId>>
           ELSE \E fault \in IndexFaults :
                LET r == ingest_files(files, user_id, index, nextId, fault)
                IN
                /\ r.nextId <= MaxChunks + 1
                /\ index' = r.index
                /\ nextId' = r.nextId
                /\ last' = [IngestRecord("upload", files, user_id, r) EXCEPT
                              !.token = token,
                              !.status = IF r.outcome = "raised" THEN 500 ELSE 200,
                              !.detail =
                                 IF r.outcome = "raised"
                                 THEN "An internal error occurred during file processing."
                                 ELSE IF r.count = 0
                                 THEN "No processable PDF files found."
                                 ELSE "Successfully processed and indexed file(s)."]

\* a call of ingest_files with the one list the endpoint never forwards
IngestFilesCall(user_id, fault) ==
    LET files == <<>>
        r == ingest_files(files, user_id, index, nextId, fault)
    IN  /\ r.nextId <= MaxChunks + 1
        /\ pre' = index
        /\ UNCHANGED <<stream, deletion>>
        /\ index' = r.index
        /\ nextId' = r.nextId
        /\ last' = IngestRecord("ingest", files, user_id, r)

\* the response of DELETE /documents/{document_name} when
\* delete_document_by_name has given r
DeleteRecord(token, document_name, user_id, r) ==
    [Blank EXCEPT
        !.op = "delete", !.token = token, !.user = user_id,
        !.name = document_name,
        !.fn = r.outcome, !.success = r.success,
        !.calls = r.calls,
        !.matched = r.matched, !.failed = r.failed,
        !.logged = r.logged, !.caught = r.caught,
        !.status = IF r.success THEN 200 ELSE 404,
        !.detail = IF r.success
                   THEN "Document has been removed successfully."
                   ELSE "Document not found for the current user."]

\* DELETE /documents/{document_name}
delete_document_endpoint(token, document_name) ==
    LET current_user == get_current_pilot_user(token)
        user_id == current_user.uid
    IN  /\ pre' = index
        /\ UNCHANGED <<nextId, stream, deletion>>
        /\ IF ~current_user.ok
           THEN /\ last' = WithToken(Unauthorized("delete"), token)
                /\ UNCHANGED index
           ELSE \E fault \in IndexFaults :
                \E failing \in FailureSets(document_name, user_id, index, fault) :
                LET r == delete_document_by_name(document_name, user_id, index,
                                                 fault, failing)
                IN
                /\ index' = r.index
                /\ last' = DeleteRecord(token, document_name, user_id, r)

(***************************************************************************)
(* A deletion seen from the index service: the search of line 108 and the  *)
(* bulk delete of line 118 are two requests, and requests of other server  *)
(* processes can reach the index between them.                             *)
(***************************************************************************)
\* no deletion is between its search and its bulk delete
NoDelete == [state |-> "none"]

\* the request reaches delete_document_by_name, which searches the index
DeleteSearchStep(token, document_name) ==
    LET current_user == get_current_pilot_user(token)
        user_id == current_user.uid
    IN  /\ deletion.state = "none"
        /\ current_user.ok
        /\ \E fault \in IndexFaults :
           \E failing \in FailureSets(document_name, user_id, index, fault) :
              deletion' = [state |-> "searched", token |-> token,
                           name |-> document_name, seen |-> index,
                           r |-> delete_document_by_name(document_name, user_id,
                                                         index, fault, failing)]
        /\ UNCHANGED <<index, nextId, pre, last, stream>>

\* the keys a deletion that gave r removes from the index
Removed(r) == IF r.caught THEN {} ELSE r.matched \ r.failed

\* the rest of the deletion, r being what the function decides
DeleteCommit(r) ==
    /\ deletion.state = "searched"
    /\ pre' = index
    /\ index' = {c \in index : c.id \notin Removed(r)}
    /\ last' = DeleteRecord(deletion.token, deletion.name, deletion.token.uid, r)
    /\ deletion' = NoDelete
    /\ UNCHANGED <<nextId, stream>>

\* a deletion that selects the chunks when it deletes
DeleteCommitBySelection ==
    DeleteCommit(delete_document_by_name(deletion.name, deletion.token.uid,
                                         index, "none", {}))

\* the bulk delete of the keys found, and the response
DeleteCommitStep == DeleteCommit(deletion.r)

\* POST /sources
sources_vector_endpoint(token, query) ==
    LET current_user == get_current_pilot_user(token)
        user_id == current_user.uid
    IN  /\ pre' = index
        /\ UNCHANGED <<index, nextId, deletion>>
        /\ IF ~current_user.ok
           THEN /\ last' = WithToken(Unauthorized("sources"), token)
                /\ stream' = NoStream
           ELSE IF QueryMissing(query)
           THEN /\ last' = WithToken(BadRequest("sources", user_id, <<>>, query,
                                   "Query cannot be empty."), token)
                /\ stream' = NoStream
           ELSE IF user_id = <<>>
           THEN /\ last' = WithToken(BadRequest("sources", user_id, <<>>, query,
                                   "User ID is required."), token)
                /\ stream' = NoStream
           ELSE \E fault \in SourceFaults :
                \E docs \in Retrievals(user_id, index, fault) :
                LET r == stream_rag_answer(query, user_id, index, fault, docs)
                IN
                /\ last' = [Blank EXCEPT
                              !.op = "sources", !.token = token,
                              !.user = user_id, !.query = query,
                              !.status = 200,
                              !.fn = r.outcome, !.calls = r.calls,
                              !.docs = r.docs, !.context = r.context]
                /\ stream' = IF r.outcome = "raised"
                             THEN [OpenStream("sources") EXCEPT
                                      !.state = "aborted", !.failed = TRUE]
                             ELSE OpenStream("sources")

\* POST /general
chat_endpoint(query) ==
    /\ pre' = index
    /\ UNCHANGED <<index, nextId, deletion>>
    /\ IF Strip(query) = <<>>
       THEN /\ last' = BadRequest("general", <<>>, <<>>, query,
                            "Missing query in request body")
            /\ stream' = NoStream
       ELSE /\ last' = [Blank EXCEPT !.op = "general", !.query = query,
                                  !.status = 200,
                                  !.calls = <<Call("get_llm_client", 0),
                                              Call("llm.astream", 0)>>]
            /\ stream' = OpenStream("general")

Init ==
    /\ index = {}
    /\ nextId = 1
    /\ pre = {}
    /\ last = Blank
    /\ stream = NoStream
    /\ deletion = NoDelete

\* the life of documents: requests with at most one file, and deletions
Next ==
    \/ \E token \in Tokens, files \in {<<>>} \cup SingleFiles :
          upload_documents_endpoint(token, files)
    \/ \E token \in Tokens, document_name \in DocumentNames :
          delete_document_endpoint(token, document_name)

Spec == Init /\ [][Next]_vars

\* questions on the documents ingested so far
NextAsk ==
    \/ \E token \in Tokens, files \in {<<>>} \cup SingleFiles :
          upload_documents_endpoint(token, files)
    \/ \E token \in Tokens, query \in Queries :
          sources_vector_endpoint(token, query)
    \/ \E query \in Queries : chat_endpoint(query)

SpecAsk == Init /\ [][NextAsk]_vars

\* streamed answers, fragment by fragment
NextStream ==
    \/ \E token \in Tokens, query \in Queries :
          sources_vector_endpoint(token, query)
    \/ \E query \in Queries : chat_endpoint(query)
    \/ RagStreamStep
    \/ RagStreamEnd
    \/ RagStreamFail
    \/ GenerateStreamStep
    \/ GenerateStreamEnd
    \/ GenerateStreamFail

SpecStream == Init /\ [][NextStream]_vars

\* ingestion of requests with several files
NextBatch ==
    \/ \E token \in Tokens, files \in FileLists :
          upload_documents_endpoint(token, files)
    \/ \E user_id \in Users, fault \in IndexFaults :
          IngestFilesCall(user_id, fault)

SpecBatch == Init /\ [][NextBatch]_vars

\* the three endpoints behind the bearer token
NextAuth ==
    \/ \E token \in Tokens, files \in {<<>>, <<GoodPdf>>} :
          upload_documents_endpoint(token, files)
    \/ \E token \in Tokens, document_name \in FileNames :
          delete_document_endpoint(token, document_name)
    \/ \E token \in Tokens, query \in Queries :
          sources_vector_endpoint(token, query)

SpecAuth == Init /\ [][NextAuth]_vars

\* deletions and ingestions that reach the index interleaved
NextRace ==
    \/ \E token \in Tokens : upload_documents_endpoint(token, <<GoodPdf>>)
    \/ \E token \in Tokens : DeleteSearchStep(token, GoodPdf.filename)
    \/ DeleteCommitStep

SpecRace == Init /\ [][NextRace]_vars

\* ingestion of requests with files that cannot be read or parsed
NextFail ==
    \E token \in Tokens, files \in FailingLists :
        upload_documents_endpoint(token, files)

SpecFail == Init /\ [][NextFail]_vars

(***************************************************************************)
(* Properties                                                              *)
(***************************************************************************)
IsIngest == last.op \in {"upload", "ingest"} /\ last.fn # "not_called"

IsDelete == last.op = "delete" /\ last.fn # "not_called" /\ last.user \in Users

OwnedBy(idx, uid) == {c \in idx : c.user_id = uid}

NotOwnedBy(idx, uid) == {c \in idx : c.user_id # uid}

WrittenIds == {last.written[k].id : k \in 1..Len(last.written)}

AllBlank(query) == \A i \in 1..Len(query) : query[i] = " "

RECURSIVE SumLen(_)
SumLen(pages) == IF pages = <<>> THEN 0 ELSE Len(Head(pages)) + SumLen(Tail(pages))

\* segments of text in the PDF files of a request
RECURSIVE PdfSegments(_)
PdfSegments(files) ==
    IF files = <<>> THEN 0
    ELSE (IF Head(files).content_type = PdfType THEN SumLen(Head(files).pages) ELSE 0)
         + PdfSegments(Tail(files))

\* C1: every chunk that stream_rag_answer(query, A) puts into the context
\* block is a chunk of the index owned by A, whatever else the index holds
RetrievalIsolation ==
    (last.op = "sources" /\ last.fn = "returned") =>
        \A k \in 1..Len(last.docs) :
            /\ last.docs[k] \in index
            /\ last.docs[k].user_id = last.user

RetrievalIsolationWitness ==
    /\ last.op = "sources"
    /\ Len(last.docs) >= 1
    /\ last.context # <<>>
    /\ NotOwnedBy(index, last.user) # {}

\* C2: for every document name and requester U, delete_document_by_name
\* leaves the chunks of every other user as they were
DeleteLeavesOthers ==
    IsDelete => NotOwnedBy(index, last.user) = NotOwnedBy(pre, last.user)

\* C3: every chunk ingest_files(files, U) writes carries user_id U, and its
\* source and title are the filename of the file it was extracted from
IngestTagsChunks ==
    IsIngest =>
        /\ index \ pre = {c \in index : c.id \in WrittenIds}
        /\ \A k \in 1..Len(last.written) :
              \E c \in index \ pre :
                  /\ c.id = last.written[k].id
                  /\ c.user_id = last.user
                  /\ c.source = last.files[last.written[k].file].filename
                  /\ c.title = last.files[last.written[k].file].filename

IngestTagsChunksWitness ==
    /\ last.op = "upload"
    /\ Len(last.files) = 2
    /\ last.files[1].filename # last.files[2].filename
    /\ \E c \in index \ pre : <<c.content>> \in Users \ {last.user}

\* C4: a file whose content type is not exactly application/pdf is neither
\* read nor parsed, contributes no chunk and is not where the call fails
NonPdfSkipped ==
    IsIngest =>
        \A i \in 1..Len(last.files) :
            last.files[i].content_type # PdfType =>
                /\ \A k \in 1..Len(last.written) : last.written[k].file # i
                /\ \A k \in 1..Len(last.calls) : last.calls[k].arg # i
                /\ last.failedAt # i
                /\ i \notin last.tmp

NonPdfSkippedWitness ==
    /\ IsIngest
    /\ Len(last.written) >= 1
    /\ \E i \in 1..Len(last.files) : last.files[i].content_type = "application/PDF"

\* C5: when ingest_files([F], U) has returned and the next operation,
\* delete_document_by_name(F, U), returns True, no chunk of U with source F
\* is left and the chunks of every other user are those from before the
\* ingest
RoundTrip ==
    [][(/\ last.op = "upload" /\ last.fn = "returned" /\ Len(last.files) = 1
        /\ last'.op = "delete" /\ last'.fn = "returned" /\ last'.success
        /\ last'.user = last.user
        /\ last'.name = last.files[1].filename)
       => /\ {c \in index' : c.user_id = last.user /\ c.source = last'.name} = {}
          /\ \A V \in Users \ {last.user} : OwnedBy(index', V) = OwnedBy(pre, V)]_vars

\* C6: deleting a name for which the requester has no chunk returns False
\* without an exception, issues no delete and leaves the index unchanged
DeleteAbsentIsNoop ==
    (IsDelete /\ {c \in pre : c.user_id = last.user /\ c.source = last.name} = {}) =>
        /\ last.fn = "returned"
        /\ ~last.success
        /\ "index.delete" \notin CalledFns(last.calls)
        /\ index = pre

\* C7: a blank or whitespace-only query on POST /sources and POST /general,
\* and an empty file list or empty user id on POST /documents, are answered
\* 400 with no pipeline function and no service called
ValidationBeforeCalls ==
    /\ (last.op \in {"sources", "general"} /\ last.status # 401 /\ AllBlank(last.query))
          => (last.status = 400 /\ last.calls = <<>> /\ last.fn = "not_called")
    /\ (last.op = "upload" /\ last.status # 401
          /\ (last.files = <<>> \/ last.user = <<>>))
          => (last.status = 400 /\ last.calls = <<>> /\ last.fn = "not_called")
    /\ last.status = 400 => (last.calls = <<>> /\ index = pre)

ValidationBeforeCallsWitness ==
    /\ last.op = "sources"
    /\ last.status = 400
    /\ last.query # <<>>
    /\ last.user \in Users

EmptyIngestNoIndexContact ==
    (IsIngest /\ last.fn = "returned" /\ PdfSegments(last.files) = 0) =>
        /\ last.count = 0
        /\ CalledFns(last.calls) \cap IndexRequests = {}
        /\ index = pre

\* C10: delete_document_by_name returns True exactly when its search
\* matched a chunk and every result of the one bulk delete reports success;
\* a failed key is logged, makes the result False and raises nothing
DeleteResult ==
    IsDelete =>
        /\ last.fn = "returned"
        /\ last.success <=> (last.matched # {} /\ last.failed = {} /\ ~last.caught)
        /\ last.failed # {} => (last.logged = last.failed /\ ~last.success)
        /\ Cardinality({k \in 1..Len(last.calls) : last.calls[k].fn = "index.delete"}) <= 1
        /\ ~last.caught =>
              index = {c \in pre : c.id \notin last.matched \ last.failed}

DeleteResultWitness ==
    /\ IsDelete
    /\ last.failed # {}
    /\ last.failed # last.matched
    /\ ~last.success

\* the fixed message of the except clause of POST /sources
SourcesInternalError == "An internal error occurred while processing your request."

\* the response of the last POST /sources has failed in the retriever or
\* after it
SourcesFailed ==
    /\ last.op = "sources"
    /\ "index.search" \in CalledFns(last.calls)
    /\ stream.op = "sources"
    /\ stream.failed

\* C11: when retrieval, prompt rendering or the completion call of a
\* POST /sources request fails, the caller receives HTTP 500 with the fixed
\* message, and never the text of the exception
SourcesFailureIs500 ==
    SourcesFailed =>
        /\ last.status = 500
        /\ last.detail = SourcesInternalError
        /\ \A k \in 1..Len(stream.sent) : stream.sent[k] # <<"Error: ", ExceptionText>>

\* the content of a chunk reaches the caller of POST /general
Deliverable(chunk) == chunk.content # <<>> /\ chunk.is_str

Contents(chunks) == [k \in 1..Len(chunks) |-> chunks[k].content]

\* C12: at every moment of a streamed answer, the fragments the caller has
\* received are those produced so far, in the order produced: all of them
\* on POST /sources, the non-empty strings on POST /general
FragmentsInOrder ==
    /\ (stream.op = "sources" /\ ~stream.failed)
          => stream.sent = Contents(stream.produced)
    /\ (stream.op = "general" /\ ~stream.failed)
          => stream.sent = Contents(SelectSeq(stream.produced, Deliverable))

FragmentsInOrderWitness ==
    /\ stream.op = "general"
    /\ Len(stream.produced) = 3
    /\ Len(stream.sent) = 2
    /\ stream.sent[1] # stream.sent[2]
    /\ ~Deliverable(stream.produced[2])

\* the step continues the response that is being streamed
SameResponse ==
    /\ stream.op = stream'.op
    /\ stream' # OpenStream(stream.op) \/ stream' = stream

IsPrefix(s, t) == Len(s) <= Len(t) /\ SubSeq(t, 1, Len(s)) = s

\* C16: on POST /general a failure during the stream leaves the status and
\* the fragments already sent as they are, adds exactly one error fragment
\* after them and ends the stream: nothing is sent after it
GeneralFailureInBand ==
    [][(stream.op = "general" /\ SameResponse) =>
          /\ stream'.status = 200
          /\ IsPrefix(stream.sent, stream'.sent)
          /\ (stream'.failed /\ ~stream.failed) =>
                /\ stream'.sent = Append(stream.sent, <<"Error: ", ExceptionText>>)
                /\ stream'.state = "closed"
          /\ stream.state = "closed" => stream' = stream]_vars

GeneralFailureInBandWitness ==
    /\ stream.op = "general"
    /\ stream.failed
    /\ Len(stream.sent) = 3
    /\ stream.sent[3] = <<"Error: ", ExceptionText>>

NoTempFileOutlives ==
    IsIngest => last.tmp = {}

\* the requester of the last deletion had no chunk with the name given
NothingToDelete == {c \in pre : c.user_id = last.user /\ c.source = last.name} = {}

\* C15: DELETE /documents/{name} answers 404 when no chunk matches
\* (user, name) and when the search or the delete fails or reports a
\* failed id, and only then; it never answers 500, and it answers 200
\* exactly when delete_document_by_name returns True
DeleteAnswers404 ==
    IsDelete =>
        /\ last.status \in {200, 404}
        /\ last.status = 200 <=> last.success
        /\ last.status = 404 <=> (NothingToDelete \/ last.caught \/ last.failed # {})

\* chunks of a user with a source
ChunksOf(idx, uid, source) == {c \in idx : c.user_id = uid /\ c.source = source}

\* chunks the last ingest wrote from files of this name
WrittenFrom(source) ==
    {k \in 1..Len(last.written) : last.files[last.written[k].file].filename = source}

\* C17: an ingest leaves every chunk that was in the index untouched and
\* adds, for every file name, as many chunks of (user, name) as the files of
\* that name gave, also when (user, name) had chunks before; the ids of the
\* index stay pairwise distinct
ReingestAddsChunks ==
    /\ \A c, d \in index : c.id = d.id => c = d
    /\ (IsIngest /\ last.fn = "returned") =>
          /\ pre \subseteq index
          /\ \A i \in 1..Len(last.files) :
                LET source == last.files[i].filename
                IN  Cardinality(ChunksOf(index, last.user, source))
                      = Cardinality(ChunksOf(pre, last.user, source))
                          + Cardinality(WrittenFrom(source))

ReingestAddsChunksWitness ==
    /\ IsIngest
    /\ last.fn = "returned"
    /\ \E i \in 1..Len(last.files) :
          /\ WrittenFrom(last.files[i].filename) # {}
          /\ ChunksOf(pre, last.user, last.files[i].filename) # {}

\* requests of the last ingest to the Embedding Provider
EmbedRequests ==
    {k \in 1..Len(last.calls) : last.calls[k].fn = "embeddings.embed_query"}

\* C18: one ingest_files call sends the texts of all its chunks to the
\* Embedding Provider in one request, and the chunks are written in the
\* order of the files and of the text within each file, each with the
\* metadata of its own file
SingleEmbeddingRequest ==
    (IsIngest /\ last.written # <<>>) =>
        /\ Cardinality(EmbedRequests) = 1
        /\ \A k \in 1..(Len(last.written) - 1) :
              last.written[k].file <= last.written[k + 1].file
        /\ \A k \in 1..Len(last.written) :
              \E c \in index :
                  /\ c.id = last.written[k].id
                  /\ c.source = last.files[last.written[k].file].filename

\* positions of the calls of fn in a call log
CallsOf(calls, fn) == {k \in 1..Len(calls) : calls[k].fn = fn}

\* C19: a deletion removes only chunks whose ids its own search returned
\* and issues at most one bulk delete, after that search; chunks that were
\* upserted between the search and the delete stay in the index
DeleteRemovesOnlyFound ==
    [][(deletion.state = "searched" /\ deletion'.state = "none") =>
          /\ \A c \in index \ index' :
                c.id \in deletion.r.matched /\ c \in deletion.seen
          /\ \A c \in index \ deletion.seen : c \in index'
          /\ last'.success = deletion.r.success
          /\ Cardinality(CallsOf(last'.calls, "index.delete")) <= 1
          /\ \A k \in CallsOf(last'.calls, "index.delete") :
                \E j \in CallsOf(last'.calls, "index.search") : j < k]_vars

\* a deletion has returned True and chunks of (user, source) remain
DeleteRemovesOnlyFoundWitness ==
    /\ IsDelete
    /\ last.success
    /\ ChunksOf(index, last.user, last.name) # {}
    /\ ChunksOf(pre, last.user, last.name) \ index # {}

\* a PDF of the last request cannot be read or parsed
SomePdfFails ==
    \E i \in 1..Len(last.files) :
        last.files[i].content_type = PdfType /\ last.files[i].fault # "none"

\* C20: a request writes to the index at most once, after all its files
\* have been read and parsed; when a PDF of the request cannot be read or
\* parsed, nothing of the request is indexed and POST /documents answers
\* 500 with the fixed message
IngestAllOrNothing ==
    (last.op = "upload" /\ last.fn # "not_called") =>
        /\ Cardinality(CallsOf(last.calls, "index.upload")) <= 1
        /\ \A k \in CallsOf(last.calls, "index.upload") :
              \A j \in CallsOf(last.calls, "file.read")
                        \cup CallsOf(last.calls, "loader.load") : j < k
        /\ SomePdfFails =>
              /\ index = pre
              /\ last.written = <<>>
              /\ CallsOf(last.calls, "index.upload") = {}
              /\ last.status = 500
              /\ last.detail = "An internal error occurred during file processing."

IngestAllOrNothingWitness ==
    /\ last.op = "upload"
    /\ Len(last.files) = 2
    /\ last.failedAt = 2
    /\ last.files[1].fault = "none"
    /\ SumLen(last.files[1].pages) > 0
    /\ "loader.load" \in CalledFns(last.calls)
    /\ last.status = 500
    /\ index # {}
====
